---- MODULE Spec2Model ----
(***************************************************************************)
(* Client runtime of talha925/Pd-Front: the TTL result cache (DataCache),  *)
(* the offline-action queue and the session state machine of AuthService,  *)
(* the useUnifiedAuth hook's warning / auto-refresh latches, and the fetch *)
(* coordinator useUnifiedDataFetching with its pending-request registry,   *)
(* and HttpClient.request.                                                 *)
(*                                                                         *)
(* The module holds twelve specifications over one set of variables; each  *)
(* one moves the variables of its component and leaves the rest alone:     *)
(*   SpecCache        DataCache.get / set / invalidate / clear and a clock *)
(*   SpecOffline      queueOfflineAction / syncOfflineActions / online     *)
(*   SpecAuth         login / logout / refresh / countdown / hook latches  *)
(*   SpecFetch        two coordinators: fetchData runs, joins, retries     *)
(*   SpecCoordinator  one coordinator: url change, refetch, cancel, reset, *)
(*                    unmount, mutate                                      *)
(*   SpecExpiry       a session left to its countdown, with fairness       *)
(*   SpecTabs         another tab writing localStorage, storage events     *)
(*   SpecTransport    one coordinator, every kind of failure and response  *)
(*   SpecGate         a requireAuth coordinator and login / logout         *)
(*   SpecHttp         HttpClient.request: one fetch, its timer, its errors *)
(*   SpecAutoFetch    a coordinator waiting for the session; its renders   *)
(*   SpecRestore      a session restored from localStorage, then used      *)
(***************************************************************************)
EXTENDS Integers, Sequences, FiniteSets, TLC

Null == "null"             \* null for strings
None == [none |-> TRUE]    \* null / absent for records

\* a JSON-encoded array in localStorage
Stored(q) == [items |-> q]

(* ------------------------------ bounds --------------------------------- *)
MaxNow == 4            \* horizon of the cache clock
MaxActions == 3        \* offline action objects ever created
MaxSyncs == 2          \* syncOfflineActions invocations
MaxCalls == 4          \* requests AuthService sends in one behaviour
CountCap == 2          \* the per-lifetime counters stop counting here
MaxRuns == 3           \* fetchData runs started
MaxRequests == 3       \* httpClient.request calls made
MaxOps == 2            \* calls of mutate, reset, cancel; renders with a new url
MaxRetry == 2          \* largest retryCount a coordinator is rendered with
retryDelay == 1        \* the retryDelay option, in clock units
cacheTTL == 1          \* the cacheTTL option, in clock units
MaxHttpCalls == 2      \* HttpClient.request calls made one after the other

(* ----- SessionConfig, in units of 100,000 ms (one modelled countdown period) ----- *)
timeoutDuration == 18          \* 30 * 60 * 1000 ms
warningThreshold == 3          \* 5 * 60 * 1000 ms
autoRefreshThreshold == 6      \* 10 * 60 * 1000 ms
\* the defaults of useUnifiedAuth's options, in the same unit
sessionWarningThreshold == 3   \* 5 * 60 * 1000 ms
hookAutoRefreshThreshold == 6  \* 10 * 60 * 1000 ms

CacheKeys == {"c1", "c2"}
Signatures == {"GET:u1", "GET:u2", "POST:u1", "POST:u2"}
Data == {"d1", "d2"}
TTLs == {0, 1, 2}

VARIABLES
  now,             \* Date.now() of the cache / fetch side
  cache,           \* DataCache.cache : key -> entry | Null
  lastGet,         \* observation of the last DataCache.get call
  offlineActions,  \* AuthService.offlineActions
  localStorage,    \* browser key-value store: authToken, user, offlineActions
  authState,       \* AuthService.authState
  syncs,           \* syncOfflineActions invocations, in order of invocation
  replayLog,       \* settled processOfflineAction calls, in order of settling
  nextAction,      \* identity of the next offline action object
  sessionTimer,    \* AuthService.sessionTimer: TRUE while the interval is set
  calls,           \* requests of AuthService in flight, with their continuation
  nextCall,        \* identity of the next request
  warningShownRef,          \* useUnifiedAuth: warningShownRef.current
  autoRefreshAttemptedRef,  \* useUnifiedAuth: autoRefreshAttemptedRef.current
  life,            \* what happened during the lifetime of the current token
  lastSettled,     \* the AuthService operation that settled last
  hook,            \* useUnifiedDataFetching instances: state, refs, options
  pendingRequests, \* pendingRequests: request key -> request, 0 when absent
  requests,        \* the httpClient.request calls made so far, in order
  runs,            \* the fetchData runs started so far, in order
  timers,          \* retry timeouts that are set and have not fired
  ops,             \* calls of mutate, reset, cancel and renders with a new url
  published,       \* the state last handed to the authStateListeners
  storageEvents,   \* storage events for 'authToken' / 'user' not yet delivered
  authSeen,        \* useUnifiedDataFetching: the authState each instance holds
  http             \* HttpClient: the request being made, and how many were

cacheVars == <<now, cache, lastGet>>
offlineVars == <<offlineActions, syncs, replayLog, nextAction>>
sessionVars == <<localStorage, authState>>
hookVars == <<warningShownRef, autoRefreshAttemptedRef>>
authVars == <<sessionTimer, calls, nextCall, life, lastSettled>>
fetchVars == <<hook, pendingRequests, requests, runs, timers, ops>>
listenVars == <<published, storageEvents, authSeen>>
notCacheVars == <<offlineVars, sessionVars, hookVars, authVars, fetchVars,
                  listenVars, http>>
vars == <<now, cache, lastGet, offlineActions, localStorage, authState,
          syncs, replayLog, nextAction, sessionTimer, calls, nextCall,
          warningShownRef, autoRefreshAttemptedRef, life, lastSettled,
          hook, pendingRequests, requests, runs, timers, ops,
          published, storageEvents, authSeen, http>>

(* =========================== DataCache ================================= *)

\* DataCache.set: the entry replaces whatever was stored under the key
CacheSet(c, key, data, ttl, t) ==
  [c EXCEPT ![key] = [data |-> data, timestamp |-> t, ttl |-> ttl]]

\* mutation of CacheExpired: the entry already expires at age = ttl
CacheExpiredAtTtl(entry, t) == t - entry.timestamp >= entry.ttl

\* the expiry test of DataCache.get
CacheExpired(entry, t) == t - entry.timestamp > entry.ttl

\* value returned by DataCache.get
CacheGetResult(c, key, t) ==
  IF c[key] = None THEN Null
  ELSE IF CacheExpired(c[key], t) THEN Null
  ELSE c[key].data

\* the cache after DataCache.get: an expired entry is deleted by the read
CacheAfterGet(c, key, t) ==
  IF c[key] # None /\ CacheExpired(c[key], t) THEN [c EXCEPT ![key] = None]
  ELSE c

CacheInvalidate(c, key) == [c EXCEPT ![key] = None]

CacheClear(c) == [k \in DOMAIN c |-> None]

InitCacheVars ==
  /\ now = 0
  /\ cache = [k \in CacheKeys \cup Signatures |-> None]
  /\ lastGet = None

DoCacheSet ==
  \E k \in CacheKeys, d \in Data, ttl \in TTLs :
    /\ cache' = CacheSet(cache, k, d, ttl, now)
    /\ UNCHANGED <<now, lastGet>>
    /\ UNCHANGED notCacheVars

DoCacheGet ==
  \E k \in CacheKeys :
    /\ cache' = CacheAfterGet(cache, k, now)
    /\ lastGet' = [key |-> k, at |-> now, entry |-> cache[k],
                   result |-> CacheGetResult(cache, k, now),
                   after |-> CacheAfterGet(cache, k, now)[k]]
    /\ UNCHANGED now
    /\ UNCHANGED notCacheVars

DoCacheInvalidate ==
  \E k \in CacheKeys :
    /\ cache' = CacheInvalidate(cache, k)
    /\ UNCHANGED <<now, lastGet>>
    /\ UNCHANGED notCacheVars

DoCacheClear ==
  /\ cache' = CacheClear(cache)
  /\ UNCHANGED <<now, lastGet>>
  /\ UNCHANGED notCacheVars

ClockAdvance ==
  /\ now < MaxNow
  /\ now' = now + 1
  /\ UNCHANGED <<cache, lastGet>>
  /\ UNCHANGED notCacheVars

(* ================= notifications and the hook's listeners ============== *)

\* the listener useUnifiedAuth registers with onAuthStateChange, as run by
\* notifyAuthStateChange: an unauthenticated state resets both latches
\* notifyAuthStateChange: the listeners are handed this.authState
\* (seq tells two notifications apart; one step makes at most two)
Publish(state, pub) == [state |-> state, seq |-> (pub.seq + 1) % 3]

\* The object a state-changed notification hands to its listeners is
\* this.authState itself, not a copy (only getAuthState() copies): whoever
\* kept the object of an earlier notification reads the service's current
\* fields through it.
handedOut == authState

\* useUnifiedDataFetching's listener is setAuthState: from the first
\* notification on a subscribed instance holds the service's own object,
\* which the service changes in place; until then it holds the copy it took
\* with getAuthState() when it was first rendered. setAuthState with an
\* object other than the one held schedules a render (dirty); with the
\* object already held it does nothing, so only the first notification
\* schedules one. isAuthenticated and isLoading are the values of the copy,
\* which are the dependencies of shouldFetch at the first render.
NotSeen == [subscribed |-> FALSE, live |-> FALSE, dirty |-> FALSE,
            isAuthenticated |-> FALSE, isLoading |-> FALSE]
Seen(seen) ==
  [h \in DOMAIN seen |->
     IF seen[h].subscribed /\ ~seen[h].live
     THEN [seen[h] EXCEPT !.live = TRUE, !.dirty = TRUE]
     ELSE seen[h]]

ListenAuthState(state, refs) ==
  IF ~state.isAuthenticated
  THEN [warningShown |-> FALSE, autoRefreshAttempted |-> FALSE]
  ELSE refs

HookRefs == [warningShown |-> warningShownRef,
             autoRefreshAttempted |-> autoRefreshAttemptedRef]

(* ======================= offline-action queue ========================== *)

\* mutation of RemoveAction: drops the head of the queue (a shift())
RemoveActionShift(q, a) == IF q = <<>> THEN q ELSE Tail(q)

\* this.offlineActions.filter(a => a !== action)
RemoveAction(q, a) == SelectSeq(q, LAMBDA x : x # a)

ActiveSyncs == {i \in 1..Len(syncs) : syncs[i].pc = "replay"}

\* ghost: an operation other than run `me' changed the queue while runs are active
Interfere(ss, me) ==
  [i \in 1..Len(ss) |->
     IF ss[i].pc = "replay" /\ i # me THEN [ss[i] EXCEPT !.interfered = TRUE]
     ELSE ss[i]]

\* the guard of syncOfflineActions: nothing is done offline or on an empty queue
SyncSkipped(online, q) == ~online \/ Len(q) = 0

\* syncOfflineActions up to its first await: the guard, the copy of the
\* queue, and the call of processOfflineAction on the first action
StartSync(ss, online, q) ==
  IF SyncSkipped(online, q) THEN ss
  ELSE Append(ss, [pc |-> "replay", actionsToSync |-> q, idx |-> 1,
                   startQueue |-> q, ok |-> {}, failed |-> {},
                   interfered |-> FALSE, finalQueue |-> <<>>,
                   finalStored |-> None])

InitOfflineVars ==
  /\ offlineActions = <<>>
  /\ syncs = <<>>
  /\ replayLog = <<>>
  /\ nextAction = 1

\* a push that is not written to localStorage
queueOfflineActionUnsaved ==
  /\ nextAction <= MaxActions
  /\ offlineActions' = Append(offlineActions, nextAction)
  /\ nextAction' = nextAction + 1
  /\ syncs' = Interfere(syncs, 0)
  /\ UNCHANGED <<authState, replayLog, localStorage>>
  /\ UNCHANGED <<cacheVars, http, hookVars, authVars, fetchVars, listenVars>>

\* AuthService.queueOfflineAction: push, then persist the whole queue
queueOfflineAction ==
  /\ nextAction <= MaxActions
  /\ offlineActions' = Append(offlineActions, nextAction)
  /\ localStorage' = [localStorage EXCEPT
                        !.offlineActions = Stored(Append(offlineActions, nextAction))]
  /\ nextAction' = nextAction + 1
  /\ syncs' = Interfere(syncs, 0)
  /\ UNCHANGED <<authState, replayLog>>
  /\ UNCHANGED <<cacheVars, http, hookVars, authVars, fetchVars, listenVars>>

\* an explicit call of AuthService.syncOfflineActions
syncOfflineActions ==
  /\ SyncSkipped(authState.isOnline, offlineActions) \/ Len(syncs) < MaxSyncs
  /\ syncs' = StartSync(syncs, authState.isOnline, offlineActions)
  /\ UNCHANGED <<offlineActions, localStorage, authState, replayLog, nextAction>>
  /\ UNCHANGED <<cacheVars, http, hookVars, authVars, fetchVars, listenVars>>

\* a replay whose filter keeps only what the run itself copied
ReplaySettlesFromCopy(i, succeeded) ==
  /\ i \in ActiveSyncs
  /\ LET r == syncs[i]
         action == r.actionsToSync[r.idx]
         q == IF succeeded
              THEN RemoveAction(SelectSeq(offlineActions,
                                          LAMBDA x : \E n \in 1..Len(r.actionsToSync) :
                                                     x = r.actionsToSync[n]),
                                action)
              ELSE offlineActions
         last == r.idx = Len(r.actionsToSync)
         r2 == [r EXCEPT !.ok = IF succeeded THEN @ \cup {action} ELSE @,
                         !.failed = IF succeeded THEN @ ELSE @ \cup {action},
                         !.idx = IF last THEN @ ELSE @ + 1,
                         !.pc = IF last THEN "done" ELSE "replay",
                         !.finalQueue = IF last THEN q ELSE @,
                         !.finalStored = IF last THEN Stored(q) ELSE @]
         others == IF succeeded /\ q # offlineActions
                   THEN Interfere(syncs, i) ELSE syncs
     IN /\ offlineActions' = q
        /\ syncs' = [others EXCEPT ![i] = r2]
        /\ replayLog' = Append(replayLog,
                          [run |-> i, action |-> action, ok |-> succeeded])
        /\ localStorage' = IF last
                           THEN [localStorage EXCEPT !.offlineActions = Stored(q)]
                           ELSE localStorage
  /\ UNCHANGED <<authState, nextAction>>
  /\ UNCHANGED <<cacheVars, http, hookVars, authVars, fetchVars, listenVars>>

\* the awaited processOfflineAction of run i settles; on success the action is
\* filtered out of the live queue; after the last action the queue is persisted
ReplaySettles(i, succeeded) ==
  /\ i \in ActiveSyncs
  /\ LET r == syncs[i]
         action == r.actionsToSync[r.idx]
         q == IF succeeded THEN RemoveAction(offlineActions, action)
              ELSE offlineActions
         last == r.idx = Len(r.actionsToSync)
         r2 == [r EXCEPT !.ok = IF succeeded THEN @ \cup {action} ELSE @,
                         !.failed = IF succeeded THEN @ ELSE @ \cup {action},
                         !.idx = IF last THEN @ ELSE @ + 1,
                         !.pc = IF last THEN "done" ELSE "replay",
                         !.finalQueue = IF last THEN q ELSE @,
                         !.finalStored = IF last THEN Stored(q) ELSE @]
         others == IF succeeded /\ q # offlineActions
                   THEN Interfere(syncs, i) ELSE syncs
     IN /\ offlineActions' = q
        /\ syncs' = [others EXCEPT ![i] = r2]
        /\ replayLog' = Append(replayLog,
                          [run |-> i, action |-> action, ok |-> succeeded])
        /\ localStorage' = IF last
                           THEN [localStorage EXCEPT !.offlineActions = Stored(q)]
                           ELSE localStorage
  /\ UNCHANGED <<authState, nextAction>>
  /\ UNCHANGED <<cacheVars, http, hookVars, authVars, fetchVars, listenVars>>

\* AuthService.clearOfflineActions
clearOfflineActions ==
  /\ offlineActions # <<>> \/ localStorage.offlineActions # None
  /\ offlineActions' = <<>>
  /\ localStorage' = [localStorage EXCEPT !.offlineActions = None]
  /\ syncs' = Interfere(syncs, 0)
  /\ UNCHANGED <<authState, replayLog, nextAction>>
  /\ UNCHANGED <<cacheVars, http, hookVars, authVars, fetchVars, listenVars>>

\* window 'online' listener: flag, notification, then syncOfflineActions()
OnlineEvent ==
  /\ ~authState.isOnline
  /\ SyncSkipped(TRUE, offlineActions) \/ Len(syncs) < MaxSyncs
  /\ authState' = [authState EXCEPT !.isOnline = TRUE]
  /\ LET refs == ListenAuthState(authState, HookRefs)
     IN /\ warningShownRef' = refs.warningShown
        /\ autoRefreshAttemptedRef' = refs.autoRefreshAttempted
  /\ published' = Publish(authState', published)
  /\ authSeen' = Seen(authSeen)
  /\ syncs' = StartSync(syncs, TRUE, offlineActions)
  /\ UNCHANGED <<offlineActions, localStorage, replayLog, nextAction>>
  /\ UNCHANGED <<cacheVars, http, authVars, fetchVars, storageEvents>>

\* window 'offline' listener: flag and notification
OfflineEvent ==
  /\ authState.isOnline
  /\ authState' = [authState EXCEPT !.isOnline = FALSE]
  /\ LET refs == ListenAuthState(authState, HookRefs)
     IN /\ warningShownRef' = refs.warningShown
        /\ autoRefreshAttemptedRef' = refs.autoRefreshAttempted
  /\ published' = Publish(authState', published)
  /\ authSeen' = Seen(authSeen)
  /\ UNCHANGED <<offlineActions, localStorage, syncs, replayLog, nextAction>>
  /\ UNCHANGED <<cacheVars, http, authVars, fetchVars, storageEvents>>

(* ========================== AuthService ================================ *)

Max(a, b) == IF a > b THEN a ELSE b

NoLife == [notified |-> 0, delivered |-> 0, autoRefresh |-> 0, below |-> FALSE]
Bump(n) == IF n < CountCap THEN n + 1 ELSE n

\* the constructor: logged out, nothing restored; the page may have inherited
\* a persisted offline queue from an earlier visit (it is never read back)
InitSession ==
  /\ localStorage \in {[authToken |-> None, user |-> Null, offlineActions |-> o] :
                         o \in {None, Stored(<<0>>)}}
  /\ authState = [user |-> Null, token |-> None, isAuthenticated |-> FALSE,
                  isLoading |-> FALSE, sessionTimeRemaining |-> 0,
                  isOnline |-> TRUE]
  /\ sessionTimer = FALSE
  /\ calls = {}
  /\ nextCall = 1
  /\ warningShownRef = FALSE
  /\ autoRefreshAttemptedRef = FALSE
  /\ life = NoLife
  /\ lastSettled = [op |-> "none", ok |-> TRUE, viaRequest |-> FALSE,
                    remote |-> "none", flip |-> FALSE,
                    tokenRefresh |-> FALSE]
  /\ published = [state |-> authState, seq |-> 0]
  /\ storageEvents = 0
  /\ authSeen = [h \in {"h1", "h2"} |-> NotSeen]

\* the session side of the state as one value, so that the methods compose
AuthW == [authState |-> authState, localStorage |-> localStorage,
          sessionTimer |-> sessionTimer, calls |-> calls, nextCall |-> nextCall,
          refs |-> HookRefs, life |-> life, lastSettled |-> lastSettled,
          published |-> published, storageEvents |-> storageEvents,
          seen |-> authSeen]

SetAuthW(w) ==
  /\ authState' = w.authState
  /\ localStorage' = w.localStorage
  /\ sessionTimer' = w.sessionTimer
  /\ calls' = w.calls
  /\ nextCall' = w.nextCall
  /\ warningShownRef' = w.refs.warningShown
  /\ autoRefreshAttemptedRef' = w.refs.autoRefreshAttempted
  /\ life' = w.life
  /\ lastSettled' = w.lastSettled
  /\ published' = w.published
  /\ storageEvents' = w.storageEvents
  /\ authSeen' = w.seen
  /\ UNCHANGED <<cache, lastGet, http, offlineVars, fetchVars>>

\* Session time is kept relative to the present instant: the expiresAt of a
\* token holds expiresAt - Date.now(), and the passing of a countdown period
\* ages it. Past expiry the difference is negative; every negative value is
\* kept as -1 (nothing reads it but getSessionTimeRemaining).
Age(token) ==
  IF token = None THEN None ELSE [token EXCEPT !.expiresAt = Max(0 - 1, @ - 1)]

\* the difference itself, without the floor
getSessionTimeRemainingRaw(token) ==
  IF token = None THEN 0 ELSE token.expiresAt

\* AuthService.getSessionTimeRemaining
getSessionTimeRemaining(token) ==
  IF token = None THEN 0 ELSE Max(0, token.expiresAt)

\* notifyAuthStateChange: the hook's listener runs
notifyAuthStateChange(w) ==
  [w EXCEPT !.refs = ListenAuthState(w.authState, w.refs),
            !.published = Publish(w.authState, w.published),
            !.seen = Seen(w.seen)]

\* notifySessionExpiring: the hook's listener passes the warning on once
notifySessionExpiring(w, timeRemaining) ==
  LET w1 == [w EXCEPT !.life.notified = Bump(@)]
  IN IF ~w.refs.warningShown /\ timeRemaining <= sessionWarningThreshold
     THEN [w1 EXCEPT !.refs.warningShown = TRUE, !.life.delivered = Bump(@)]
     ELSE w1

\* the hook's refreshToken action re-arms both latches after the service's
\* refreshToken has resolved
hookRefreshed(w) ==
  [w EXCEPT !.refs = [warningShown |-> FALSE, autoRefreshAttempted |-> FALSE]]

\* notifyTokenRefresh: the token-refreshed listeners are called with the new
\* token (lastSettled.tokenRefresh records it); the hook's listener re-arms
\* both latches
notifyTokenRefresh(w) ==
  [w EXCEPT !.refs = [warningShown |-> FALSE, autoRefreshAttempted |-> FALSE],
            !.lastSettled.tokenRefresh = TRUE]

\* this.httpClient.post(...): the request is in flight, the method suspended
Post(w, kind, then) ==
  [w EXCEPT !.calls = @ \cup {[id |-> w.nextCall, kind |-> kind, then |-> then]},
            !.nextCall = @ + 1]

Settle(w, op, ok, viaRequest) ==
  [w EXCEPT !.lastSettled = [op |-> op, ok |-> ok, viaRequest |-> viaRequest,
                             remote |-> "none", flip |-> ~w.lastSettled.flip,
                             tokenRefresh |-> FALSE]]

\* refreshToken rejects; the automatic caller of the hook re-arms its latch
refreshRejected(w, origin, viaRequest) ==
  LET w1 == Settle(w, "refresh", FALSE, viaRequest)
  IN IF origin = "hookauto"
     THEN [w1 EXCEPT !.refs.autoRefreshAttempted = FALSE]
     ELSE w1

\* a finally block that leaves the interval running
logoutFinallyKeepsTimer(w) ==
  notifyAuthStateChange(
    [w EXCEPT !.authState.user = Null,
              !.authState.token = None,
              !.authState.isAuthenticated = FALSE,
              !.authState.sessionTimeRemaining = 0,
              !.localStorage.authToken = None,
              !.localStorage.user = Null,
              !.life = NoLife])

\* the finally block of logout
logoutFinally(w) ==
  notifyAuthStateChange(
    [w EXCEPT !.authState.user = Null,
              !.authState.token = None,
              !.authState.isAuthenticated = FALSE,
              !.authState.sessionTimeRemaining = 0,
              !.localStorage.authToken = None,
              !.localStorage.user = Null,
              !.sessionTimer = FALSE,
              !.life = NoLife])

\* logout has returned: a refreshToken that awaited it rethrows its error
afterLogout(w, then, remote) ==
  LET w1 == IF then = "none" THEN Settle(w, "logout", TRUE, FALSE)
            ELSE refreshRejected(w, then, TRUE)
  IN [w1 EXCEPT !.lastSettled.remote = remote]

\* logout up to its await: the remote call is made only when authenticated
\* and online, otherwise the finally block runs at once
logout(w, then) ==
  IF w.authState.isAuthenticated /\ w.authState.isOnline
  THEN Post(w, "logout", then)
  ELSE afterLogout(logoutFinally(w), then, "skipped")

\* a guard that ends the session before it rejects
refreshTokenGuardLogsOut(w, origin) ==
  IF w.authState.token = None \/ ~w.authState.token.refreshToken
  THEN refreshRejected(logoutFinally(w), origin, FALSE)
  ELSE LET w1 == Post(w, "refresh", origin)
       IN IF origin \in {"auto", "hookauto"}
          THEN [w1 EXCEPT !.life.autoRefresh = Bump(@)]
          ELSE w1

\* refreshToken up to its await: the guard, then the request
refreshToken(w, origin) ==
  IF w.authState.token = None \/ ~w.authState.token.refreshToken
  THEN refreshRejected(w, origin, FALSE)
  ELSE LET w1 == Post(w, "refresh", origin)
       IN IF origin \in {"auto", "hookauto"}
          THEN [w1 EXCEPT !.life.autoRefresh = Bump(@)]
          ELSE w1

\* the body of the setInterval callback of startSessionTimer
sessionTick(w) ==
  LET timeRemaining == getSessionTimeRemaining(w.authState.token)
      w1 == [w EXCEPT !.authState.sessionTimeRemaining = timeRemaining]
      w2 == IF timeRemaining <= 0 THEN logout(w1, "none")
            ELSE IF timeRemaining <= warningThreshold
            THEN notifySessionExpiring([w1 EXCEPT !.life.below = TRUE], timeRemaining)
            ELSE IF timeRemaining <= autoRefreshThreshold
            THEN refreshToken(w1, "auto")
            ELSE w1
  IN notifyAuthStateChange(w2)

\* one countdown period passes; the interval callback runs if the timer is set
Tick ==
  /\ nextCall <= MaxCalls
  /\ LET aged == [AuthW EXCEPT !.authState.token = Age(@),
                               !.localStorage.authToken = Age(@)]
     IN SetAuthW(IF sessionTimer THEN sessionTick(aged) ELSE aged)
  /\ UNCHANGED now

\* AuthService.login up to its await
Login ==
  /\ nextCall <= MaxCalls
  /\ SetAuthW(Post(notifyAuthStateChange([AuthW EXCEPT !.authState.isLoading = TRUE]),
                   "login", "none"))
  /\ UNCHANGED now

\* the login request succeeds: token and user installed and persisted, timer set
LoginSucceeds(c, hasRefresh) ==
  /\ c \in calls /\ c.kind = "login"
  /\ LET token == [id |-> c.id, refreshToken |-> hasRefresh,
                   expiresAt |-> timeoutDuration]
         w == [AuthW EXCEPT !.calls = @ \ {c},
                            !.authState.user = "u1",
                            !.authState.token = token,
                            !.authState.isAuthenticated = TRUE,
                            !.authState.isLoading = FALSE,
                            !.localStorage.authToken = token,
                            !.localStorage.user = "u1",
                            !.sessionTimer = TRUE,
                            !.life = NoLife]
     IN SetAuthW(Settle(notifyAuthStateChange(w), "login", TRUE, TRUE))
  /\ UNCHANGED now

\* a failing login that also drops the session it finds
LoginFailsClears(c) ==
  /\ c \in calls /\ c.kind = "login"
  /\ SetAuthW(Settle(logoutFinally(
                [AuthW EXCEPT !.calls = @ \ {c}, !.authState.isLoading = FALSE]),
              "login", FALSE, TRUE))
  /\ UNCHANGED now

\* the login request fails: only isLoading changes, the error is rethrown
LoginFails(c) ==
  /\ c \in calls /\ c.kind = "login"
  /\ SetAuthW(Settle(notifyAuthStateChange(
                [AuthW EXCEPT !.calls = @ \ {c}, !.authState.isLoading = FALSE]),
              "login", FALSE, TRUE))
  /\ UNCHANGED now

\* AuthService.logout called by the application
Logout ==
  /\ nextCall <= MaxCalls
  /\ SetAuthW(logout(AuthW, "none"))
  /\ UNCHANGED now

\* the awaited logout request settles: a failure is caught and logged, the
\* finally block runs either way
LogoutSettles(c, ok) ==
  /\ c \in calls /\ c.kind = "logout"
  /\ SetAuthW(afterLogout(logoutFinally([AuthW EXCEPT !.calls = @ \ {c}]), c.then,
                          IF ok THEN "succeeded" ELSE "failed"))
  /\ UNCHANGED now

\* refreshToken / extendSession called on the service ("manual") or through
\* the hook's refreshToken action ("hook")
RefreshToken(origin) ==
  /\ nextCall <= MaxCalls
  /\ SetAuthW(refreshToken(AuthW, origin))
  /\ UNCHANGED now

\* the refresh request succeeds: the new token replaces the current one
RefreshSucceeds(c) ==
  /\ c \in calls /\ c.kind = "refresh"
  /\ LET newToken == [id |-> c.id, refreshToken |-> TRUE,
                      expiresAt |-> timeoutDuration]
         w == notifyAuthStateChange(
                [AuthW EXCEPT !.calls = @ \ {c},
                              !.authState.token = newToken,
                              !.localStorage.authToken = newToken,
                              !.life = NoLife])
         w1 == Settle(w, "refresh", TRUE, TRUE)
     IN SetAuthW(IF c.then = "auto" THEN notifyTokenRefresh(w1)
                 ELSE IF c.then = "hook" THEN hookRefreshed(w1)
                 ELSE w1)
  /\ UNCHANGED now

\* the refresh request fails: logout is awaited, then the error rethrown
RefreshFails(c) ==
  /\ c \in calls /\ c.kind = "refresh"
  /\ nextCall <= MaxCalls
  /\ SetAuthW(logout([AuthW EXCEPT !.calls = @ \ {c}], c.then))
  /\ UNCHANGED now

\* checkAutoRefresh of useUnifiedAuth's auto-refresh effect
HookCheckAutoRefresh ==
  /\ nextCall <= MaxCalls
  /\ authState.isAuthenticated
  /\ authState.sessionTimeRemaining > 0
  /\ authState.sessionTimeRemaining <= hookAutoRefreshThreshold
  /\ ~autoRefreshAttemptedRef
  /\ SetAuthW(refreshToken([AuthW EXCEPT !.refs.autoRefreshAttempted = TRUE],
                           "hookauto"))
  /\ UNCHANGED now

\* isSessionValid, for the token it reads
isSessionValid(token) == getSessionTimeRemaining(token) > 0

\* initializeFromStorage: only when both entries are present are they parsed
\* into the state (JSON.parse gives back the plain values that were written);
\* a valid session (re)starts the timer, an invalid one removes the stored
\* token; with an entry missing the state is left as it is
initializeFromStorage(w) ==
  LET storedToken == w.localStorage.authToken
      storedUser == w.localStorage.user
  IN IF storedToken # None /\ storedUser # Null
     THEN IF isSessionValid(storedToken)
          THEN [w EXCEPT !.authState.token = storedToken,
                         !.authState.user = storedUser,
                         !.authState.isAuthenticated = TRUE,
                         !.sessionTimer = TRUE,
                         !.life = NoLife]
          ELSE [w EXCEPT !.authState.token = storedToken,
                         !.authState.user = storedUser,
                         !.authState.isAuthenticated = FALSE,
                         !.localStorage.authToken = None]
     ELSE w

\* the 'storage' listener: an event for 'authToken' or 'user' is delivered
StorageEvent ==
  /\ storageEvents > 0
  /\ SetAuthW(notifyAuthStateChange(initializeFromStorage(
                [AuthW EXCEPT !.storageEvents = @ - 1])))
  /\ UNCHANGED now

\* Another tab runs the same service on the same localStorage; each entry it
\* writes or removes queues one storage event for this tab.
OtherTabWrites(authToken, user, n) ==
  /\ storageEvents = 0
  /\ localStorage' = [localStorage EXCEPT !.authToken = authToken, !.user = user]
  /\ storageEvents' = n
  /\ UNCHANGED <<authState, published, authSeen>>
  /\ UNCHANGED <<now, cacheVars, http, offlineVars, hookVars, authVars, fetchVars>>

\* the other tab's login succeeds: setStoredToken and setItem('user')
OtherTabLogin(hasRefresh) ==
  OtherTabWrites([id |-> 0, refreshToken |-> hasRefresh,
                  expiresAt |-> timeoutDuration], "u2", 2)

\* the other tab's logout: clearStoredToken and removeItem('user')
OtherTabLogout ==
  /\ localStorage.authToken # None /\ localStorage.user # Null
  /\ OtherTabWrites(None, Null, 2)

\* the other tab's updateUser / getCurrentUser: setItem('user')
OtherTabUpdateUser ==
  /\ localStorage.user # Null
  /\ OtherTabWrites(localStorage.authToken, "u2", 1)

(* ===================== useUnifiedDataFetching ========================== *)

Hooks == {"h1", "h2"}
Urls == {"u1", "u2"}
NoTime == 0 - 1          \* lastFetchTime: null

\* createRequestKey: method, url and the serialised body, params and headers
\* (the coordinators of the model differ in method and url only)
createRequestKey(method, url) ==
  IF method = "GET"
  THEN (IF url = "u1" THEN "GET:u1" ELSE "GET:u2")
  ELSE (IF url = "u1" THEN "POST:u1" ELSE "POST:u2")

\* the options a coordinator is rendered with: one that retries and has no
\* cache key, one that has a cache key and does not retry
Configs ==
  {[method |-> "GET", cacheKey |-> Null, retryCount |-> MaxRetry,
    retryDelay |-> retryDelay, cacheTTL |-> cacheTTL,
    requireAuth |-> FALSE, waitForAuth |-> FALSE],
   [method |-> "GET", cacheKey |-> "c1", retryCount |-> 0,
    retryDelay |-> retryDelay, cacheTTL |-> cacheTTL,
    requireAuth |-> FALSE, waitForAuth |-> FALSE]}

\* the options of a coordinator that needs a session (enabled throughout)
GateConfigs ==
  {[method |-> "GET", cacheKey |-> Null, retryCount |-> MaxRetry,
    retryDelay |-> retryDelay, cacheTTL |-> cacheTTL,
    requireAuth |-> TRUE, waitForAuth |-> wait] : wait \in BOOLEAN}

\* useState / useRef initial values of one instance
NoHook ==
  [phase |-> "absent", url |-> "u1",
   config |-> [method |-> "GET", cacheKey |-> Null, retryCount |-> 0,
               retryDelay |-> retryDelay, cacheTTL |-> cacheTTL,
               requireAuth |-> FALSE, waitForAuth |-> FALSE],
   data |-> Null, error |-> Null, isLoading |-> FALSE, isInitialized |-> FALSE,
   isValidating |-> FALSE, lastFetchTime |-> NoTime,
   abortControllerRef |-> 0, retryTimeoutRef |-> 0, lastApplied |-> 0]

InitFetch ==
  /\ hook = [h \in Hooks |-> NoHook]
  /\ pendingRequests = [k \in Signatures |-> 0]
  /\ requests = <<>>
  /\ runs = <<>>
  /\ timers = {}
  /\ ops = 0

\* the fetch side of the state as one value, so that the functions compose
FetchW == [hook |-> hook, cache |-> cache, pendingRequests |-> pendingRequests,
           requests |-> requests, runs |-> runs, timers |-> timers,
           seen |-> authSeen, authState |-> authState]

SetFetchW(w) ==
  /\ hook' = w.hook
  /\ cache' = w.cache
  /\ pendingRequests' = w.pendingRequests
  /\ requests' = w.requests
  /\ runs' = w.runs
  /\ timers' = w.timers
  /\ authSeen' = w.seen
  /\ UNCHANGED <<now, lastGet, http, offlineVars, sessionVars, hookVars, authVars,
                 published, storageEvents>>

Op == ops < MaxOps /\ ops' = ops + 1

\* setState(prev => ({...prev, ...updates}))
Merge(r, updates) ==
  [f \in DOMAIN r |-> IF f \in DOMAIN updates THEN updates[f] ELSE r[f]]

\* updateState: nothing happens once the instance is unmounted
updateState(w, h, updates) ==
  IF w.hook[h].phase # "mounted" THEN w
  ELSE [w EXCEPT !.hook[h] = Merge(@, updates)]

\* what httpClient.request rejects with: a network error (status 0), its own
\* timeout (408), a server error (500), or the HttpError of a 401, 403 or
\* 400 response; all are plain Errors with a status
Transient == {"Network", "Timeout", "System"}
Rejections == {"401", "403", "400"}
Failures == Transient \cup Rejections

\* a run of fetchData: the url, the state.data / state.error and the
\* authState its closure was created with
NewRun(h, hk, seen) ==
  [hook |-> h, url |-> hk.url,
   closure |-> [hasData |-> hk.data # Null, error |-> hk.error, auth |-> seen],
   transport |-> 0, delays |-> <<>>, errors |-> <<>>, callbacks |-> <<>>,
   outcome |-> "none",
   value |-> Null,
   joined |-> 0, cancelled |-> FALSE, lateWrite |-> FALSE, stale |-> FALSE]

\* cancel: abort the current controller, clear the current retry timeout
cancel(w, h) ==
  LET ac == w.hook[h].abortControllerRef
      rt == w.hook[h].retryTimeoutRef
      w1 == IF ac = 0 THEN w
            ELSE IF w.requests[ac].status = "pending"
            THEN [w EXCEPT !.requests[ac].aborted = TRUE,
                           !.runs[w.requests[ac].run].cancelled = TRUE,
                           !.hook[h].abortControllerRef = 0]
            ELSE [w EXCEPT !.hook[h].abortControllerRef = 0]
      w2 == IF rt = 0 THEN w1
            ELSE IF \E t \in w1.timers : t.run = rt
            THEN [w1 EXCEPT !.timers = {t \in @ : t.run # rt},
                            !.runs[rt].cancelled = TRUE,
                            !.hook[h].retryTimeoutRef = 0]
            ELSE [w1 EXCEPT !.hook[h].retryTimeoutRef = 0]
  IN w2

\* shouldFetch of the closure: the authState it reads is the copy taken at
\* the first render or, once a notification has replaced it, the service's
\* own object with its present values
shouldFetch(w, cfg, auth) ==
  LET a == IF auth.live THEN w.authState ELSE auth
  IN IF cfg.requireAuth /\ ~a.isAuthenticated THEN FALSE
     ELSE IF cfg.requireAuth /\ a.isLoading THEN cfg.waitForAuth
     ELSE TRUE

\* fetchData(retryAttempt) of run r at time t, after shouldFetch() held
fetchDataAllowed(w, h, r, retryAttempt, t) ==
  LET cfg == w.hook[h].config
      run == w.runs[r]
      requestKey == createRequestKey(cfg.method, run.url)
      useCache == cfg.method = "GET" /\ cfg.cacheKey # Null
      cachedData == IF useCache THEN CacheGetResult(w.cache, cfg.cacheKey, t)
                    ELSE Null
      w0 == IF useCache
            THEN [w EXCEPT !.cache = CacheAfterGet(@, cfg.cacheKey, t)]
            ELSE w
  IN IF cachedData # Null
     THEN \* served from the cache: onSuccess, onSettled
       [updateState(w0, h, [data |-> cachedData, error |-> Null,
                            isLoading |-> FALSE, isInitialized |-> TRUE,
                            lastFetchTime |-> t])
          EXCEPT !.runs[r].outcome = "success", !.runs[r].value = cachedData,
                 !.runs[r].callbacks = @ \o <<"onSuccess", "onSettled">>]
     ELSE IF w0.pendingRequests[requestKey] # 0
     THEN \* join the pending request
       LET q == w0.pendingRequests[requestKey]
       IN [w0 EXCEPT !.requests[q].waiters =
                        Append(@, [run |-> r, kind |-> "join",
                                   attempt |-> retryAttempt]),
                     !.runs[r].joined = w0.requests[q].run]
     ELSE \* cancel(), new AbortController, httpClient.request
       LET w1 == cancel(w0, h)
           q == Len(w1.requests) + 1
           w2 == updateState([w1 EXCEPT !.hook[h].abortControllerRef = q], h,
                   [isLoading |-> TRUE,
                    isValidating |-> run.closure.hasData,
                    error |-> IF retryAttempt = 0 THEN Null
                              ELSE run.closure.error])
       IN [w2 EXCEPT !.requests =
                        Append(@, [key |-> requestKey, run |-> r,
                                   status |-> "pending", aborted |-> FALSE,
                                   waiters |-> <<[run |-> r, kind |-> "issue",
                                                  attempt |-> retryAttempt]>>]),
                     !.pendingRequests[requestKey] = q,
                     !.runs[r].transport = @ + 1]

\* fetchData(retryAttempt) of run r at time t, up to its first await
fetchData(w, h, r, retryAttempt, t) ==
  IF shouldFetch(w, w.hook[h].config, w.runs[r].closure.auth)
  THEN fetchDataAllowed(w, h, r, retryAttempt, t)
  ELSE [w EXCEPT !.runs[r].outcome = "skipped"]

\* retryDelay * Math.pow(2, retryAttempt)
RetryDelay(cfg, retryAttempt) == cfg.retryDelay * 2 ^ retryAttempt

\* a continuation that removes the signature only after the mounted check
issuerContinuesMounted(w, q, wt, ok, d, t) ==
  LET r == wt.run
      h == w.runs[r].hook
      cfg == w.hook[h].config
      w1 == [w EXCEPT !.pendingRequests[w.requests[q].key] = 0]
  IN IF w.hook[h].phase # "mounted"
     THEN [w EXCEPT !.runs[r].outcome = "dropped",
                    !.runs[r].callbacks = Append(@, "onSettled")]
     ELSE IF ok
     THEN LET w2 == IF cfg.method = "GET" /\ cfg.cacheKey # Null
                    THEN [w1 EXCEPT !.cache =
                            CacheSet(@, cfg.cacheKey, d, cfg.cacheTTL, t)]
                    ELSE w1
          IN [updateState(w2, h, [data |-> d, error |-> Null,
                                  isLoading |-> FALSE, isValidating |-> FALSE,
                                  isInitialized |-> TRUE, lastFetchTime |-> t])
                EXCEPT !.runs[r].outcome = "success", !.runs[r].value = d,
                       !.runs[r].callbacks = @ \o <<"onSuccess", "onSettled">>]
     ELSE IF wt.attempt < cfg.retryCount
     THEN [w1 EXCEPT !.timers = @ \cup {[run |-> r, attempt |-> wt.attempt + 1,
                                         due |-> t + RetryDelay(cfg, wt.attempt)]},
                     !.hook[h].retryTimeoutRef = r,
                     !.runs[r].delays = Append(@, RetryDelay(cfg, wt.attempt)),
                     !.runs[r].callbacks = Append(@, "onSettled")]
     ELSE [updateState(w1, h, [error |-> d, isLoading |-> FALSE,
                               isValidating |-> FALSE, isInitialized |-> TRUE])
             EXCEPT !.runs[r].outcome = "error",
                    !.runs[r].callbacks = @ \o <<"onError", "onSettled">>]

\* fetchData after `await requestPromise`, in the run that made the request
\* (HttpClient rejects with a plain Error, never one named 'AbortError')
issuerContinues(w, q, wt, ok, d, t) ==
  LET r == wt.run
      h == w.runs[r].hook
      cfg == w.hook[h].config
      w1 == [w EXCEPT !.pendingRequests[w.requests[q].key] = 0]
  IN IF w1.hook[h].phase # "mounted"
     THEN [w1 EXCEPT !.runs[r].outcome = "dropped",
                     !.runs[r].callbacks = Append(@, "onSettled")]
     ELSE IF ok
     THEN LET w2 == IF cfg.method = "GET" /\ cfg.cacheKey # Null
                    THEN [w1 EXCEPT !.cache =
                            CacheSet(@, cfg.cacheKey, d, cfg.cacheTTL, t)]
                    ELSE w1
          IN [updateState(w2, h, [data |-> d, error |-> Null,
                                  isLoading |-> FALSE, isValidating |-> FALSE,
                                  isInitialized |-> TRUE, lastFetchTime |-> t])
                EXCEPT !.runs[r].outcome = "success", !.runs[r].value = d,
                       !.runs[r].callbacks = @ \o <<"onSuccess", "onSettled">>]
     ELSE IF wt.attempt < cfg.retryCount
     THEN [w1 EXCEPT !.timers = @ \cup {[run |-> r, attempt |-> wt.attempt + 1,
                                         due |-> t + RetryDelay(cfg, wt.attempt)]},
                     !.hook[h].retryTimeoutRef = r,
                     !.runs[r].delays = Append(@, RetryDelay(cfg, wt.attempt)),
                     !.runs[r].callbacks = Append(@, "onSettled")]
     ELSE [updateState(w1, h, [error |-> d, isLoading |-> FALSE,
                               isValidating |-> FALSE, isInitialized |-> TRUE])
             EXCEPT !.runs[r].outcome = "error",
                    !.runs[r].callbacks = @ \o <<"onError", "onSettled">>]

\* what a component sees of a coordinator
Visible(hk) == <<hk.data, hk.error, hk.isLoading>>

\* the issuer's continuation together with the record of what it did
issuerSettles(w, q, wt, ok, d, t) ==
  LET r == wt.run
      h == w.runs[r].hook
      w1 == issuerContinues(w, q, wt, ok, d, t)
      wrote == \/ w1.cache # w.cache
               \/ Visible(w1.hook[h]) # Visible(w.hook[h])
               \/ w1.timers # w.timers
      applied == w1.runs[r].outcome \in {"success", "error"}
  IN [w1 EXCEPT !.runs[r].errors = IF ok THEN @ ELSE Append(@, d),
                !.runs[r].lateWrite = w.requests[q].aborted /\ wrote,
                !.runs[r].stale = applied /\ w.hook[h].lastApplied > q,
                !.hook[h].lastApplied = IF applied THEN Max(@, q) ELSE @]

\* fetchData after `await pendingRequests.get(requestKey)`, in a joined run
joinerSettles(w, wt, ok, d, t) ==
  LET r == wt.run
      h == w.runs[r].hook
  IN IF ok
     THEN [updateState(w, h, [data |-> d, error |-> Null, isLoading |-> FALSE,
                              isInitialized |-> TRUE, lastFetchTime |-> t])
             EXCEPT !.runs[r].outcome = "success", !.runs[r].value = d,
                    !.runs[r].callbacks = @ \o <<"onSuccess", "onSettled">>]
     ELSE [updateState(w, h, [error |-> d, isLoading |-> FALSE,
                              isInitialized |-> TRUE])
             EXCEPT !.runs[r].outcome = "error",
                    !.runs[r].callbacks = @ \o <<"onError", "onSettled">>]

\* the promise reactions run in the order in which the runs awaited it
RECURSIVE Continue(_, _, _, _, _, _)
Continue(w, q, waiters, ok, d, t) ==
  IF waiters = <<>> THEN w
  ELSE LET wt == Head(waiters)
           w1 == IF wt.kind = "issue" THEN issuerSettles(w, q, wt, ok, d, t)
                 ELSE joinerSettles(w, wt, ok, d, t)
       IN Continue(w1, q, Tail(waiters), ok, d, t)

requestSettles(w, q, ok, d, t) ==
  [Continue(w, q, w.requests[q].waiters, ok, d, t)
     EXCEPT !.requests[q].status = "done", !.requests[q].waiters = <<>>]

\* the first render of a coordinator ("h1" names the one rendered first)
Mount(h, cfg) ==
  /\ hook[h].phase = "absent"
  /\ h = "h2" => hook["h1"].phase # "absent"
  /\ hook' = [hook EXCEPT ![h].phase = "mounted", ![h].config = cfg]
  /\ authSeen' = [authSeen EXCEPT ![h] =
                    [subscribed |-> TRUE, live |-> FALSE, dirty |-> FALSE,
                     isAuthenticated |-> authState.isAuthenticated,
                     isLoading |-> authState.isLoading]]
  /\ UNCHANGED <<pendingRequests, requests, runs, timers, ops, published,
                 storageEvents>>
  /\ UNCHANGED <<cacheVars, http, offlineVars, sessionVars, hookVars, authVars>>

\* the first render of a coordinator with autoFetch, and its auto-fetch
\* effect: if (autoFetch && shouldFetch()) fetchData()
MountAutoFetch(h, cfg) ==
  /\ hook[h].phase = "absent"
  /\ h = "h2" => hook["h1"].phase # "absent"
  /\ Len(runs) < MaxRuns
  /\ Len(requests) < MaxRequests
  /\ LET copy == [subscribed |-> TRUE, live |-> FALSE, dirty |-> FALSE,
                  isAuthenticated |-> authState.isAuthenticated,
                  isLoading |-> authState.isLoading]
         w == [FetchW EXCEPT !.hook[h].phase = "mounted",
                             !.hook[h].config = cfg,
                             !.seen[h] = copy]
         r == Len(runs) + 1
     IN IF shouldFetch(w, cfg, copy)
        THEN SetFetchW(fetchData([w EXCEPT !.runs =
                                    Append(@, NewRun(h, w.hook[h], copy))],
                                 h, r, 0, now))
        ELSE SetFetchW(w)
  /\ UNCHANGED ops

\* the render scheduled by setAuthState: the hook now reads the service's
\* own object; shouldFetch is a new callback only if authState.isAuthenticated
\* or authState.isLoading differ from the last render, and only then does the
\* auto-fetch effect run again
Render(h) ==
  /\ hook[h].phase = "mounted"
  /\ authSeen[h].dirty
  /\ LET changed == \/ authState.isAuthenticated # authSeen[h].isAuthenticated
                    \/ authState.isLoading # authSeen[h].isLoading
         rendered == [authSeen[h] EXCEPT !.dirty = FALSE,
                                         !.isAuthenticated = FALSE,
                                         !.isLoading = FALSE]
         w == [FetchW EXCEPT !.seen[h] = rendered]
         r == Len(runs) + 1
     IN IF changed /\ shouldFetch(w, hook[h].config, rendered)
        THEN /\ Len(runs) < MaxRuns
             /\ Len(requests) < MaxRequests
             /\ SetFetchW(fetchData([w EXCEPT !.runs =
                                       Append(@, NewRun(h, hook[h], rendered))],
                                    h, r, 0, now))
        ELSE SetFetchW(w)
  /\ UNCHANGED ops

\* a render with another url
SetUrl(h, u) ==
  /\ hook[h].phase = "mounted"
  /\ hook[h].url # u
  /\ hook' = [hook EXCEPT ![h].url = u]
  /\ Op
  /\ UNCHANGED <<pendingRequests, requests, runs, timers>>
  /\ UNCHANGED <<cacheVars, http, offlineVars, sessionVars, hookVars, authVars,
                 listenVars>>

\* fetchData() called by the auto-fetch effect
FetchData(h) ==
  /\ hook[h].phase = "mounted"
  /\ Len(runs) < MaxRuns
  /\ Len(requests) < MaxRequests
  /\ LET r == Len(runs) + 1
         w == [FetchW EXCEPT !.runs = Append(@, NewRun(h, hook[h], authSeen[h]))]
     IN SetFetchW(fetchData(w, h, r, 0, now))
  /\ UNCHANGED ops

\* refetch: invalidate the cache key, then fetchData()
Refetch(h) ==
  /\ hook[h].phase = "mounted"
  /\ Len(runs) < MaxRuns
  /\ Len(requests) < MaxRequests
  /\ LET r == Len(runs) + 1
         k == hook[h].config.cacheKey
         w == [FetchW EXCEPT !.runs = Append(@, NewRun(h, hook[h], authSeen[h])),
                             !.cache = IF k # Null THEN CacheInvalidate(@, k)
                                       ELSE @]
     IN SetFetchW(fetchData(w, h, r, 0, now))
  /\ UNCHANGED ops

\* httpClient.request resolves
RequestSucceeds(q, d) ==
  /\ q \in DOMAIN requests
  /\ requests[q].status = "pending"
  /\ SetFetchW(requestSettles(FetchW, q, TRUE, d, now))
  /\ UNCHANGED ops

\* httpClient.request rejects with error e
RequestFails(q, e) ==
  /\ q \in DOMAIN requests
  /\ requests[q].status = "pending"
  /\ SetFetchW(requestSettles(FetchW, q, FALSE, e, now))
  /\ UNCHANGED ops

\* a retry timeout fires: fetchData(retryAttempt + 1) of the same closure
RetryFires(tm) ==
  /\ tm \in timers
  /\ tm.due <= now
  /\ Len(requests) < MaxRequests
  /\ LET w == [FetchW EXCEPT !.timers = @ \ {tm}]
     IN SetFetchW(fetchData(w, runs[tm.run].hook, tm.run, tm.attempt, now))
  /\ UNCHANGED ops

Cancel(h) ==
  /\ hook[h].phase = "mounted"
  /\ hook[h].abortControllerRef # 0 \/ hook[h].retryTimeoutRef # 0
  /\ SetFetchW(cancel(FetchW, h))
  /\ Op

Reset(h) ==
  /\ hook[h].phase = "mounted"
  /\ SetFetchW(updateState(cancel(FetchW, h), h,
                 [data |-> Null, error |-> Null, isLoading |-> FALSE,
                  isInitialized |-> FALSE, isValidating |-> FALSE,
                  lastFetchTime |-> NoTime]))
  /\ hook' # hook
  /\ Op

\* the cleanup of the unmount effect
Unmount(h) ==
  /\ hook[h].phase = "mounted"
  /\ SetFetchW(cancel([FetchW EXCEPT !.hook[h].phase = "unmounted",
                                     !.seen[h].subscribed = FALSE], h))
  /\ UNCHANGED ops

\* mutate(newData)
Mutate(h, d) ==
  /\ hook[h].phase = "mounted"
  /\ LET k == hook[h].config.cacheKey
         w == updateState(FetchW, h, [data |-> d])
     IN SetFetchW(IF k # Null
                  THEN [w EXCEPT !.cache =
                          CacheSet(@, k, d, hook[h].config.cacheTTL, now)]
                  ELSE w)
  /\ Op

\* time passes; a timeout that is due fires before time moves on, and the
\* clock is followed only while a timeout or a cache entry waits for it
TimePasses ==
  /\ now < MaxNow
  /\ timers # {} \/ \E k \in DOMAIN cache : cache[k] # None
  /\ \A tm \in timers : tm.due > now
  /\ now' = now + 1
  /\ UNCHANGED <<cache, lastGet>>
  /\ UNCHANGED notCacheVars

(* ============================ HttpClient =============================== *)

HttpTimeout == 3           \* this.timeout = 30000 ms, in units of 10,000 ms
retryAttempts == 3         \* config.api.retryAttempts

NoStatus == 0 - 1          \* status: undefined

\* a value thrown inside request: name, whether its message contains
\* 'fetch', and the HttpError fields if it has them
Thrown(name, mentionsFetch) ==
  [name |-> name, mentionsFetch |-> mentionsFetch, status |-> NoStatus,
   isNetworkError |-> FALSE, isTimeoutError |-> FALSE]

\* what fetch rejects with when the timer has not aborted it: a TypeError
\* saying "Failed to fetch" / "fetch failed", a TypeError saying "Load
\* failed", or any other Error
FetchErrors ==
  {Thrown("TypeError", TRUE), Thrown("TypeError", FALSE), Thrown("Error", FALSE)}

\* the statuses a response comes with
Statuses == {200, 204, 401, 404, 500}

\* new Error(...) as HttpError with status and the two flags set
HttpError(status, isNetworkError, isTimeoutError) ==
  [name |-> "Error", mentionsFetch |-> FALSE, status |-> status,
   isNetworkError |-> isNetworkError, isTimeoutError |-> isTimeoutError]

\* createHttpError: the error of a response that is not ok
createHttpError(status) == HttpError(status, FALSE, FALSE)

\* handleRequestError: what the caught value is turned into
handleRequestError(error) ==
  IF error.name = "AbortError" THEN HttpError(408, FALSE, TRUE)
  ELSE IF error.name = "TypeError" /\ error.mentionsFetch
  THEN HttpError(0, TRUE, FALSE)
  ELSE IF error.status # NoStatus THEN error
  ELSE HttpError(500, FALSE, FALSE)

\* the promise of request: pending, resolved with data or rejected with error
Pending == [state |-> "pending", data |-> Null, error |-> None]
Resolved(data) == [state |-> "resolved", data |-> data, error |-> None]
Rejected(error) == [state |-> "rejected", data |-> Null, error |-> error]

\* processResponse and the return of request: a response that is not ok
\* throws its HttpError, a 204 gives null, otherwise the body is parsed
\* (which throws a SyntaxError when the body is not what its type says)
processResponse(status, parses) ==
  IF status < 200 \/ status > 299
  THEN Rejected(handleRequestError(createHttpError(status)))
  ELSE IF status = 204 THEN Resolved(Null)
  ELSE IF parses THEN Resolved("d1")
  ELSE Rejected(handleRequestError(Thrown("SyntaxError", FALSE)))

\* no timeout is left set
clearTimeoutSkipped(h) == h

\* clearTimeout(timeoutId)
clearTimeout(h) == [h EXCEPT !.timer = FALSE]

NoRequest ==
  [phase |-> "idle", timer |-> FALSE, fired |-> FALSE, elapsed |-> 0,
   callerAborted |-> FALSE, fetches |-> 0, cause |-> "none",
   response |-> NoStatus, result |-> Pending, calls |-> 0]

InitHttp == http = NoRequest

\* the frame of the HttpClient actions
HttpFrame ==
  UNCHANGED <<now, cache, lastGet, offlineVars, sessionVars, hookVars,
              authVars, fetchVars, listenVars>>

\* request up to `await fetch(...)`: own AbortController, timeout set, fetch
\* called with the controller's signal
HttpRequest ==
  /\ http.phase \in {"idle", "settled"}
  /\ http.calls < MaxHttpCalls
  /\ http' = [NoRequest EXCEPT !.phase = "fetching", !.timer = TRUE,
                               !.fetches = 1, !.calls = http.calls + 1]
  /\ HttpFrame

\* the caller aborts the signal it passed in config.signal: fetch was given
\* the client's own signal instead, nothing happens to the call
CallerAborts ==
  /\ http.phase = "fetching"
  /\ ~http.callerAborted
  /\ http' = [http EXCEPT !.callerAborted = TRUE]
  /\ HttpFrame

\* fetch resolves with a response: the timeout is cleared, the response
\* processed
FetchResponds(status, parses) ==
  /\ http.phase = "fetching"
  /\ http' = [clearTimeout(http) EXCEPT !.phase = "settled",
                                        !.cause = "response",
                                        !.response = status,
                                        !.result = processResponse(status, parses)]
  /\ HttpFrame

\* fetch rejects: the timeout is cleared, the error handled and thrown
FetchRejects(error) ==
  /\ http.phase = "fetching"
  /\ http' = [clearTimeout(http) EXCEPT !.phase = "settled",
                                        !.cause = "rejection",
                                        !.result = Rejected(handleRequestError(error))]
  /\ HttpFrame

\* the timeout fires: abortController.abort(), fetch rejects with an
\* AbortError, which is handled and thrown
TimeoutFires ==
  /\ http.timer
  /\ http.elapsed >= HttpTimeout
  /\ http' = IF http.phase = "fetching"
             THEN [http EXCEPT !.timer = FALSE, !.fired = TRUE,
                               !.phase = "settled", !.cause = "abort",
                               !.result = Rejected(handleRequestError(
                                            Thrown("AbortError", FALSE)))]
             ELSE [http EXCEPT !.timer = FALSE, !.fired = TRUE]
  /\ HttpFrame

\* time passes, during the call and after it; a timeout that is due fires
\* before time moves on
HttpAdvance ==
  /\ http.phase # "idle"
  /\ http.elapsed <= HttpTimeout
  /\ ~(http.timer /\ http.elapsed >= HttpTimeout)
  /\ http' = [http EXCEPT !.elapsed = @ + 1]
  /\ HttpFrame

(* ========================= specifications ============================== *)

Init == InitCacheVars /\ InitOfflineVars /\ InitSession /\ InitFetch /\ InitHttp

NextCache ==
  \/ DoCacheSet
  \/ DoCacheGet
  \/ DoCacheInvalidate
  \/ DoCacheClear
  \/ ClockAdvance

SpecCache == Init /\ [][NextCache]_vars

NextOffline ==
  \/ queueOfflineAction
  \/ syncOfflineActions
  \/ \E i \in 1..MaxSyncs, succeeded \in BOOLEAN : ReplaySettles(i, succeeded)
  \/ clearOfflineActions
  \/ OnlineEvent
  \/ OfflineEvent

SpecOffline == Init /\ [][NextOffline]_vars

NextAuth ==
  \/ Tick
  \/ Login
  \/ \E c \in calls, hasRefresh \in BOOLEAN : LoginSucceeds(c, hasRefresh)
  \/ \E c \in calls : LoginFails(c)
  \/ Logout
  \/ \E c \in calls, ok \in BOOLEAN : LogoutSettles(c, ok)
  \/ \E origin \in {"manual", "hook"} : RefreshToken(origin)
  \/ \E c \in calls : RefreshSucceeds(c)
  \/ \E c \in calls : RefreshFails(c)
  \/ HookCheckAutoRefresh
  \/ OnlineEvent
  \/ OfflineEvent

SpecAuth == Init /\ [][NextAuth]_vars

\* the page starts with nothing persisted
InitF == Init /\ localStorage.offlineActions = None

\* Two tabs on one localStorage, with sessions that have no refresh
\* credential. A storage event is delivered well within a countdown period,
\* so no period passes while one is queued.
\* A session left to its countdown: it is logged in, the tick refreshes it
\* and expires it, and the requests settle. Every request
\* the HttpClient sends settles (it aborts on its own timeout), so a logout
\* that is awaited returns.
NextExpiry ==
  \/ Tick
  \/ Login
  \/ \E c \in calls, r \in BOOLEAN : LoginSucceeds(c, r)
  \/ \E c \in calls, ok \in BOOLEAN : LogoutSettles(c, ok)
  \/ \E c \in calls : RefreshSucceeds(c)
  \/ \E c \in calls : RefreshFails(c)
  \/ OfflineEvent

SpecExpiry ==
  /\ InitF
  /\ [][NextExpiry]_vars
  /\ WF_vars(\E c \in calls, ok \in BOOLEAN : LogoutSettles(c, ok))

NextTabs ==
  \/ storageEvents = 0 /\ Tick
  \/ Login
  \/ \E c \in calls : LoginSucceeds(c, FALSE)
  \/ Logout
  \/ \E c \in calls : LogoutSettles(c, TRUE)
  \/ OtherTabLogin(FALSE)
  \/ OtherTabLogout
  \/ OtherTabUpdateUser
  \/ StorageEvent

SpecTabs == InitF /\ [][NextTabs]_vars

\* HttpClient.request, one call after the other
NextHttp ==
  \/ HttpRequest
  \/ CallerAborts
  \/ \E status \in Statuses, parses \in BOOLEAN : FetchResponds(status, parses)
  \/ \E error \in FetchErrors : FetchRejects(error)
  \/ TimeoutFires
  \/ HttpAdvance

SpecHttp == InitF /\ [][NextHttp]_vars

\* one coordinator and its Transport: every kind of failure, and responses
\* with and without a body
NextTransport ==
  \/ \E cfg \in Configs : Mount("h1", cfg)
  \/ FetchData("h1")
  \/ \E q \in 1..MaxRequests, d \in Data \cup {Null} : RequestSucceeds(q, d)
  \/ \E q \in 1..MaxRequests, e \in Failures : RequestFails(q, e)
  \/ \E tm \in timers : RetryFires(tm)
  \/ TimePasses

SpecTransport == InitF /\ [][NextTransport]_vars

\* a coordinator that needs a session, and the session logging in and out
\* (one login or logout at a time)
NextGate ==
  \/ calls = {} /\ Login
  \/ \E c \in calls : LoginSucceeds(c, FALSE)
  \/ calls = {} /\ Logout
  \/ \E c \in calls : LogoutSettles(c, TRUE)
  \/ \E cfg \in GateConfigs : Mount("h1", cfg)
  \/ FetchData("h1")
  \/ \E q \in 1..MaxRequests : RequestSucceeds(q, "d1")
  \/ \E q \in 1..MaxRequests : RequestFails(q, "Network")
  \/ \E tm \in timers : RetryFires(tm)
  \/ TimePasses

SpecGate == InitF /\ [][NextGate]_vars

\* a coordinator that waits for the session: its first render with the
\* auto-fetch effect, the render a notification schedules, and no other call
\* of fetchData. React performs a scheduled render and every request that
\* was sent settles (HttpClient times out after 30 s); nothing else is
\* assumed to happen.
NextAutoFetch ==
  \/ calls = {} /\ Login
  \/ \E c \in calls : LoginSucceeds(c, FALSE)
  \/ \E c \in calls : LoginFails(c)
  \/ calls = {} /\ Logout
  \/ \E c \in calls : LogoutSettles(c, TRUE)
  \/ \E cfg \in GateConfigs : MountAutoFetch("h1", cfg)
  \/ Render("h1")
  \/ \E q \in 1..MaxRequests : RequestSucceeds(q, "d1")
  \/ \E q \in 1..MaxRequests : RequestFails(q, "Network")
  \/ \E tm \in timers : RetryFires(tm)
  \/ TimePasses

SpecAutoFetch ==
  /\ InitF /\ [][NextAutoFetch]_vars
  /\ WF_vars(Render("h1"))
  /\ WF_vars(\E c \in calls : \/ LoginSucceeds(c, FALSE)
                               \/ LoginFails(c)
                               \/ LogoutSettles(c, TRUE))
  /\ WF_vars(\E q \in 1..MaxRequests : \/ RequestSucceeds(q, "d1")
                                        \/ RequestFails(q, "Network"))

\* what localStorage['authToken'] may hold when the page is loaded: nothing,
\* a token still valid, or one that ran out while the page was closed
StoredTokens ==
  {None,
   [id |-> 0, refreshToken |-> FALSE, expiresAt |-> warningThreshold + 1],
   [id |-> 0, refreshToken |-> FALSE, expiresAt |-> 0 - 1]}

\* the constructor on a page that was loaded with persisted entries: the
\* initial authState, then initializeFromStorage()
InitRestored ==
  /\ InitCacheVars /\ InitOfflineVars /\ InitFetch /\ InitHttp
  /\ calls = {} /\ nextCall = 1
  /\ warningShownRef = FALSE /\ autoRefreshAttemptedRef = FALSE
  /\ lastSettled = [op |-> "none", ok |-> TRUE, viaRequest |-> FALSE,
                    remote |-> "none", flip |-> FALSE,
                    tokenRefresh |-> FALSE]
  /\ storageEvents = 0
  /\ authSeen = [h \in {"h1", "h2"} |-> NotSeen]
  /\ \E t \in StoredTokens :
       LET w0 == [authState |-> [user |-> Null, token |-> None,
                                 isAuthenticated |-> FALSE, isLoading |-> FALSE,
                                 sessionTimeRemaining |-> 0, isOnline |-> TRUE],
                  localStorage |-> [authToken |-> t,
                                    user |-> IF t = None THEN Null ELSE "u1",
                                    offlineActions |-> None],
                  sessionTimer |-> FALSE, life |-> NoLife]
           w == initializeFromStorage(w0)
       IN /\ authState = w.authState
          /\ localStorage = w.localStorage
          /\ sessionTimer = w.sessionTimer
          /\ life = w.life
  /\ published = [state |-> authState, seq |-> 0]

\* a session restored from storage, then used
NextRestore ==
  \/ Tick
  \/ Login
  \/ \E c \in calls, r \in BOOLEAN : LoginSucceeds(c, r)
  \/ \E c \in calls : LoginFails(c)
  \/ Logout
  \/ \E c \in calls : LogoutSettles(c, TRUE)
  \/ \E origin \in {"manual", "hook"} : RefreshToken(origin)
  \/ \E c \in calls : RefreshSucceeds(c)
  \/ \E c \in calls : RefreshFails(c)

SpecRestore == InitRestored /\ [][NextRestore]_vars

\* coordinators that share the pending registry and the cache
NextFetch ==
  \/ \E h \in Hooks, cfg \in Configs : Mount(h, cfg)
  \/ \E h \in Hooks : FetchData(h)
  \/ \E q \in 1..MaxRequests, d \in Data : RequestSucceeds(q, d)
  \/ \E q \in 1..MaxRequests : RequestFails(q, "Network")
  \/ \E tm \in timers : RetryFires(tm)
  \/ TimePasses

SpecFetch == InitF /\ [][NextFetch]_vars

\* one coordinator and everything its component can do with it
NextCoordinator ==
  \/ \E cfg \in Configs : Mount("h1", cfg)
  \/ \E u \in Urls : SetUrl("h1", u)
  \/ FetchData("h1")
  \/ Refetch("h1")
  \/ \E q \in 1..MaxRequests, d \in Data : RequestSucceeds(q, d)
  \/ \E q \in 1..MaxRequests : RequestFails(q, "Network")
  \/ \E tm \in timers : RetryFires(tm)
  \/ Cancel("h1")
  \/ Reset("h1")
  \/ Unmount("h1")
  \/ \E d \in Data : Mutate("h1", d)
  \/ TimePasses

SpecCoordinator == InitF /\ [][NextCoordinator]_vars

(* ============================== claims ================================= *)

SeqToSet(q) == {q[i] : i \in 1..Len(q)}
Increasing(q) == \A i, j \in 1..Len(q) : i < j => q[i] < q[j]
ReplayedBy(i) == SelectSeq(replayLog, LAMBDA e : e.run = i)

\* C5: a sync run replays the copied queue in insertion order; a successful
\* replay removes exactly that action and a failed one leaves the queue as it
\* is; a finished run has removed what it replayed successfully, has kept (when
\* nothing else touched the queue) exactly the failed actions in their original
\* order, and has persisted the queue as it stood at the end of the run.
C5_RunState ==
  \A i \in 1..Len(syncs) :
    LET r == syncs[i]
        done == ReplayedBy(i)
    IN /\ Len(done) <= Len(r.startQueue)
       /\ \A n \in 1..Len(done) : done[n].action = r.startQueue[n]
       /\ Increasing(r.startQueue)
       /\ r.pc = "done" =>
            /\ Len(done) = Len(r.startQueue)
            /\ SeqToSet(r.finalQueue) \cap r.ok = {}
            /\ Increasing(r.finalQueue)
            /\ r.finalStored = Stored(r.finalQueue)
            /\ ~r.interfered =>
                 r.finalQueue = SelectSeq(r.startQueue, LAMBDA a : a \in r.failed)

C5_ReplayStep ==
  Len(replayLog') > Len(replayLog) =>
    LET e == replayLog'[Len(replayLog')]
    IN /\ e.ok => offlineActions' = SelectSeq(offlineActions, LAMBDA a : a # e.action)
       /\ ~e.ok => offlineActions' = offlineActions
       /\ syncs'[e.run].pc = "done" =>
            localStorage'.offlineActions = Stored(offlineActions')

C5_SyncInOrder == [](C5_RunState) /\ [][C5_ReplayStep]_vars

\* the queue [A, B, C] was synced, A and C succeeded, B failed: [B] is left
C5_Witness ==
  \E i \in 1..Len(syncs) :
    /\ syncs[i].pc = "done"
    /\ syncs[i].startQueue = <<1, 2, 3>>
    /\ syncs[i].ok = {1, 3}
    /\ syncs[i].failed = {2}
    /\ offlineActions = <<2>>
    /\ localStorage.offlineActions = Stored(<<2>>)

\* C7: a read of an entry stored at s with ttl t is absent and evicts the entry
\* when now > s + t, and returns the stored value (keeping the entry) when
\* now <= s + t.
C7_CacheExpiry ==
  (lastGet # None /\ lastGet.entry # None) =>
    IF lastGet.at > lastGet.entry.timestamp + lastGet.entry.ttl
    THEN lastGet.result = Null /\ lastGet.after = None
    ELSE lastGet.result = lastGet.entry.data /\ lastGet.after = lastGet.entry

\* an entry that was never invalidated is read after its ttl has run out
C7_Witness ==
  /\ lastGet # None
  /\ lastGet.entry # None
  /\ lastGet.at > lastGet.entry.timestamp + lastGet.entry.ttl
  /\ lastGet.result = Null

\* C2: within one token lifetime the session-expiring warning reaches the
\* application exactly once: at the first countdown tick at or below the
\* warning threshold, and at no earlier tick.
C2_WarnedExactlyOnce ==
  authState.token # None =>
    /\ life.delivered <= 1
    /\ life.below => life.delivered = 1
    /\ life.delivered >= 1 => life.below

\* C3: within one token lifetime at most one automatic refresh request is
\* initiated, however many ticks and hook checks happen meanwhile.
C3_OneAutoRefresh == life.autoRefresh <= 1

\* the step in which a refreshToken whose request failed settles: either the
\* logout it awaited returns, or the logout needed no remote call
RefreshFailureSettles ==
  \/ \E c \in calls : c.kind = "logout" /\ c.then # "none" /\ c \notin calls'
  \/ \E c \in calls : /\ c.kind = "refresh" /\ c \notin calls'
                      /\ nextCall' = nextCall
                      /\ (authState'.token = None \/ authState'.token.id # c.id)

LoggedOutAfter ==
  /\ ~authState'.isAuthenticated
  /\ authState'.user = Null
  /\ authState'.token = None
  /\ ~sessionTimer'
  /\ lastSettled' # lastSettled
  /\ lastSettled'.op = "refresh" /\ ~lastSettled'.ok

\* C4 as stated: when a failed refresh has settled the session is logged out,
\* the whole persisted state (token, user, offline queue) is cleared, the
\* countdown is stopped and the failure has been rethrown.
C4_AllStorageCleared ==
  [][RefreshFailureSettles =>
       /\ LoggedOutAfter
       /\ localStorage'.authToken = None
       /\ localStorage'.user = Null
       /\ localStorage'.offlineActions = None]_vars

\* C4 amended: as above, with the persisted token and user removed; the
\* persisted offline queue is not touched.
C4_RefreshFailure ==
  [][RefreshFailureSettles =>
       /\ LoggedOutAfter
       /\ localStorage'.authToken = None
       /\ localStorage'.user = Null
       /\ localStorage'.offlineActions = localStorage.offlineActions]_vars

\* a refresh request has failed while the session was authenticated
C4_Witness ==
  /\ lastSettled.op = "refresh" /\ ~lastSettled.ok /\ lastSettled.viaRequest
  /\ ~authState.isAuthenticated
  /\ authState.token = None
  /\ localStorage.authToken = None
  /\ ~sessionTimer

(* ------------------------- fetch coordinator --------------------------- *)

Terminal(r) == runs[r].outcome \in {"success", "error"}

\* C1: when a run joins the pending request of another run, that other run
\* makes exactly one Transport call and both runs end with the same outcome
\* (the same data, or both the error), whatever the retry options are.
C1_OneCallOneOutcome ==
  \A a, b \in DOMAIN runs :
    (a # b /\ runs[b].joined = a /\ Terminal(a) /\ Terminal(b)) =>
      /\ runs[a].transport = 1
      /\ runs[a].outcome = runs[b].outcome
      /\ runs[a].value = runs[b].value

\* C6: a run that ends with the error without having been cancelled has made
\* retryCount + 1 Transport attempts, has waited retryDelay * 2^i before
\* attempt i + 1, and leaves the error in the coordinator's state.
C6_RetrySchedule ==
  [][\A r \in DOMAIN runs :
       (runs[r].outcome = "none" /\ runs'[r].outcome = "error"
          /\ ~runs'[r].cancelled) =>
         LET h == runs[r].hook
             cfg == hook[h].config
         IN /\ runs'[r].transport = cfg.retryCount + 1
            /\ runs'[r].delays =
                 [i \in 1..cfg.retryCount |-> cfg.retryDelay * 2 ^ (i - 1)]
            /\ hook'[h].error = "Network"
            /\ ~hook'[h].isLoading]_vars

\* createRequestKey when no cacheKey option is given (cacheKey || requestKey)
effectiveCacheKey(h) ==
  IF hook[h].config.cacheKey # Null THEN hook[h].config.cacheKey
  ELSE createRequestKey(hook[h].config.method, hook[h].url)

\* C8: mutate(newValue) makes newValue the coordinator's data and the data of
\* its cache entry; it makes no Transport call and leaves the pending
\* registry, the error and the loading flag as they were.
C8_MutateFrame ==
  [][\A h \in Hooks, d \in Data :
       Mutate(h, d) =>
         /\ hook'[h].data = d
         /\ cache'[effectiveCacheKey(h)] # None
         /\ cache'[effectiveCacheKey(h)].data = d
         /\ requests' = requests
         /\ pendingRequests' = pendingRequests
         /\ hook'[h].error = hook[h].error
         /\ hook'[h].isLoading = hook[h].isLoading]_vars

\* C9: the completion of a request whose controller was aborted (cancel,
\* reset, unmount, a later run) writes neither the cache nor the visible
\* state of the coordinator and schedules no retry.
C9_NoWriteAfterCancel ==
  \A r \in DOMAIN runs : ~runs[r].lateWrite

\* C10: of two requests of one coordinator in flight together the earlier is
\* aborted, and the outcome of an earlier request is never applied to the
\* coordinator after the outcome of a later one.
C10_LaterRunWins ==
  /\ \A q1, q2 \in DOMAIN requests :
       (q1 < q2 /\ requests[q1].status = "pending"
          /\ requests[q2].status = "pending"
          /\ runs[requests[q1].run].hook = runs[requests[q2].run].hook)
         => requests[q1].aborted
  /\ \A r \in DOMAIN runs : ~runs[r].stale

\* ---------------------------------------------------------------------------
\* logout

\* a call of logout has run its finally block and returned, on its own or
\* inside the catch of refreshToken
LogoutCompletes ==
  /\ lastSettled' # lastSettled
  /\ lastSettled'.remote # "none"

\* C11: whenever logout completes, with its remote call succeeded, failed or
\* skipped, the user and token are null, isAuthenticated is false,
\* sessionTimeRemaining is 0, the countdown is stopped, the listeners have
\* been handed that state, and a direct logout has resolved.
C11_LogoutAlwaysClears ==
  [][LogoutCompletes =>
       /\ authState'.user = Null
       /\ authState'.token = None
       /\ ~authState'.isAuthenticated
       /\ authState'.sessionTimeRemaining = 0
       /\ ~sessionTimer'
       /\ published'.state = authState'
       /\ published'.seq # published.seq
       /\ (lastSettled'.op = "logout" => lastSettled'.ok)]_vars

\* a logout whose remote call failed has resolved with the session cleared
C11_Witness ==
  /\ lastSettled.op = "logout" /\ lastSettled.ok
  /\ lastSettled.remote = "failed"
  /\ ~authState.isAuthenticated /\ authState.token = None
  /\ published.state = authState

\* C12 as stated: whenever logout completes, the persisted token, the
\* persisted user and the persisted queue of offline actions are all absent.
C12_AllEntriesRemoved ==
  [][LogoutCompletes =>
       /\ localStorage'.authToken = None
       /\ localStorage'.user = Null
       /\ localStorage'.offlineActions = None]_vars

\* ---------------------------------------------------------------------------
\* cross-tab synchronisation

\* the last queued storage event of another tab's change has been handled
Resynchronized == storageEvents > 0 /\ storageEvents' = 0

\* C13 as stated: once the storage events of another tab's change have been
\* handled, the in-memory token and user are the persisted ones and
\* isAuthenticated tells whether a session is persisted; a removal in the
\* other tab leaves this tab unauthenticated.
C13_StorageEventResyncs ==
  [][Resynchronized =>
       /\ authState'.token = localStorage'.authToken
       /\ authState'.user = localStorage'.user
       /\ authState'.isAuthenticated =
            (localStorage'.authToken # None /\ localStorage'.user # Null)]_vars

\* C14 as stated: the countdown timer is active exactly when isAuthenticated.
C14_TimerIffAuthenticated == sessionTimer <=> authState.isAuthenticated

\* ---------------------------------------------------------------------------
\* expiry

\* the current token of an authenticated session has run out
Expired ==
  /\ authState.isAuthenticated
  /\ authState.token # None
  /\ authState.token.expiresAt <= 0

LoggedOut ==
  /\ ~authState.isAuthenticated
  /\ authState.token = None
  /\ authState.user = Null
  /\ ~sessionTimer

\* the remaining time is never negative, in the state or as published, and
\* an authenticated session whose token has run out is being logged out
ExpiryInv ==
  /\ authState.sessionTimeRemaining >= 0
  /\ published.state.sessionTimeRemaining >= 0
  /\ Expired => \E c \in calls : c.kind = "logout"

\* C15: the remaining-session value is never negative, and a session whose
\* remaining time has reached zero is forced to the logged-out state
\* (isAuthenticated false, token and user null, countdown stopped).
C15_ExpiryForcesLogout == []ExpiryInv /\ (Expired ~> LoggedOut)

\* the token ran out a period ago: the tick has published 0 and called
\* logout, whose request is in flight
C15_Witness ==
  /\ Expired /\ authState.token.expiresAt < 0
  /\ authState.sessionTimeRemaining = 0
  /\ sessionTimer
  /\ \E c \in calls : c.kind = "logout"

\* C16 as stated: in every published state that has a token,
\* sessionTimeRemaining is max(0, token expiry - now); in particular it is
\* positive in the state published right after a successful login or refresh.
C16_PublishedRemaining ==
  published.state.token # None =>
    published.state.sessionTimeRemaining =
      Max(0, getSessionTimeRemainingRaw(published.state.token))

(* ------------------- fetch coordinator: Transport ---------------------- *)

\* C17 as stated: a 401, 403 or 400 failure is never retried: it is the last
\* failure of its run and leaves no retry timeout behind.
C17_RejectionsNotRetried ==
  \A r \in DOMAIN runs : \A i \in DOMAIN runs[r].errors :
    runs[r].errors[i] \in Rejections =>
      /\ i = Len(runs[r].errors)
      /\ ~\E tm \in timers : tm.run = r

\* a call of fetchData() by coordinator h starts a new run
FetchStarts(h) ==
  /\ Len(runs') = Len(runs) + 1
  /\ runs'[Len(runs')].hook = h

\* the cache holds an entry under h's cache key that has not expired
FreshEntry(h) ==
  /\ hook[h].config.method = "GET"
  /\ hook[h].config.cacheKey # Null
  /\ cache[hook[h].config.cacheKey] # None
  /\ ~CacheExpired(cache[hook[h].config.cacheKey], now)

\* C19 as stated: a fetch of a GET coordinator with a cache key that finds a
\* non-expired entry is served from it (the cached value becomes the data,
\* the run succeeds, no Transport call is made and the pending registry is
\* left alone); without a cache key the cache is neither read nor written.
C19_CacheShortCircuit ==
  [][(\A h \in Hooks :
         (FetchStarts(h) /\ FreshEntry(h)) =>
           /\ requests' = requests
           /\ pendingRequests' = pendingRequests
           /\ hook'[h].data = cache[hook[h].config.cacheKey].data
           /\ runs'[Len(runs')].outcome = "success")
     /\ ((\A h \in Hooks : hook[h].config.cacheKey = Null) => cache' = cache)
    ]_vars

\* C20: a signature is in the pending registry exactly while its Transport
\* call is in flight: the entry names a request that has not settled, every
\* request that has not settled is the entry of its signature (so no two are
\* in flight for one signature), also after a cancel or an unmount.
C20_PendingRegistry ==
  /\ \A k \in Signatures :
       pendingRequests[k] # 0 =>
         /\ pendingRequests[k] \in DOMAIN requests
         /\ requests[pendingRequests[k]].status = "pending"
         /\ requests[pendingRequests[k]].key = k
  /\ \A q \in DOMAIN requests :
       requests[q].status = "pending" => pendingRequests[requests[q].key] = q

\* the request of a coordinator that was unmounted meanwhile has settled and
\* its signature is out of the registry
C20_Witness ==
  \E q \in DOMAIN requests :
    /\ requests[q].status = "done"
    /\ runs[requests[q].run].outcome = "dropped"
    /\ hook[runs[requests[q].run].hook].phase = "unmounted"
    /\ pendingRequests[requests[q].key] = 0

\* C18 as stated: a coordinator with requireAuth issues a Transport call, on
\* a first attempt or on a retry, only while the session is authenticated.
C18_NoCallUnauthenticated ==
  [][\A q \in DOMAIN requests' \ DOMAIN requests :
       hook[runs'[requests'[q].run].hook].config.requireAuth =>
         authState.isAuthenticated]_vars

(* ------------------- fetch coordinator: callbacks ---------------------- *)

\* how often run r has invoked callback cb
Invoked(r, cb) ==
  Cardinality({i \in DOMAIN runs[r].callbacks : runs[r].callbacks[i] = cb})

\* run r has no request to wait for and no retry timeout left
Over(r) ==
  /\ \A q \in DOMAIN requests :
       \A i \in DOMAIN requests[q].waiters : requests[q].waiters[i].run # r
  /\ ~\E tm \in timers : tm.run = r

\* C21 as stated: a run that has issued or joined a request and is over has
\* invoked exactly one of onSuccess and onError, once.
C21_OneOutcomeCallback ==
  \A r \in DOMAIN runs :
    ((runs[r].transport > 0 \/ runs[r].joined # 0) /\ Over(r)) =>
      Invoked(r, "onSuccess") + Invoked(r, "onError") = 1

(* ----------------------------- HttpClient ------------------------------ *)

C23_FailuresClassified ==
  http.phase = "settled" =>
    /\ http.result.state = "rejected" =>
         /\ http.result.error.status \in Nat
         /\ ~(http.result.error.isNetworkError /\ http.result.error.isTimeoutError)
    /\ http.cause = "rejection" =>
         /\ http.result.state = "rejected"
         /\ http.result.error.isNetworkError
    /\ (http.cause = "response" /\ (http.response < 200 \/ http.response > 299)) =>
         /\ http.result.state = "rejected"
         /\ http.result.error.status = http.response
         /\ ~http.result.error.isNetworkError
         /\ ~http.result.error.isTimeoutError
    /\ http.result.state = "resolved" =>
         (http.cause = "response" /\ http.response >= 200 /\ http.response <= 299)

\* C24 as stated: a request whose network call has failed, with attempts
\* left, has re-issued the call (it is waiting for the next fetch) instead
\* of rejecting.
C24_NetworkCallRetried ==
  (http.cause = "rejection" /\ http.fetches < retryAttempts) =>
    http.phase = "fetching"

(* ------------------------------- login --------------------------------- *)

\* a call of login has returned
LoginReturns == lastSettled' # lastSettled /\ lastSettled'.op = "login"

\* C25: a login that fails leaves user, token, isAuthenticated, the
\* persisted entries and the countdown as they were and isLoading false; a
\* login that succeeds leaves the session authenticated with the new token
\* and the user in memory and persisted and the countdown running.
C25_LoginOutcome ==
  [][LoginReturns =>
       IF lastSettled'.ok
       THEN /\ authState'.isAuthenticated
            /\ authState'.token # None
            /\ authState'.token.expiresAt = timeoutDuration
            /\ authState'.user # Null
            /\ localStorage'.authToken = authState'.token
            /\ localStorage'.user = authState'.user
            /\ sessionTimer'
            /\ ~authState'.isLoading
       ELSE /\ authState'.user = authState.user
            /\ authState'.token = authState.token
            /\ authState'.isAuthenticated = authState.isAuthenticated
            /\ localStorage' = localStorage
            /\ sessionTimer' = sessionTimer
            /\ ~authState'.isLoading]_vars

\* a login has failed and the session is still logged out
C25_Witness ==
  /\ lastSettled.op = "login" /\ ~lastSettled.ok
  /\ ~authState.isAuthenticated /\ authState.token = None
  /\ authState.user = Null /\ ~sessionTimer /\ ~authState.isLoading
  /\ localStorage.authToken = None

(* ------------------------------ refresh -------------------------------- *)

\* a call of refreshToken has resolved
RefreshResolves ==
  lastSettled' # lastSettled /\ lastSettled'.op = "refresh" /\ lastSettled'.ok

\* C26: every successful refresh installs the new token in memory and in the
\* persisted entry, leaves the session authenticated with the countdown
\* running against the new expiry, and fires the token-refreshed
\* notification with the new token.
C26_RefreshInstallsAndNotifies ==
  [][RefreshResolves =>
       /\ authState'.token # None
       /\ authState'.token # authState.token
       /\ authState'.token.expiresAt = timeoutDuration
       /\ localStorage'.authToken = authState'.token
       /\ authState'.isAuthenticated
       /\ sessionTimer'
       /\ lastSettled'.tokenRefresh]_vars

(* --------------------------- offline queue ----------------------------- *)

\* an action has been queued
Queued == nextAction' # nextAction

\* a run of syncOfflineActions has passed its guard
SyncRunStarts == Len(syncs') > Len(syncs)

Delivered == published.seq # 0

\* C28: the SessionState a state-changed notification delivered never
\* changes afterwards (the object handed out still reads as it did when it
\* was delivered), and every change of the session state comes with a
\* state-changed notification carrying the new state.
C28_SnapshotsImmutable ==
  [][/\ Delivered => handedOut' = published.state
     /\ authState' # authState =>
          /\ published'.seq # published.seq
          /\ published'.state = authState']_vars

(* ----------------------- signature as cache key ------------------------ *)

\* run r, which made its own Transport call, succeeds in this step
IssuerSucceeds(r) ==
  /\ runs[r].outcome # "success" /\ runs'[r].outcome = "success"
  /\ runs[r].joined = 0 /\ runs[r].transport # 0

\* a GET coordinator without a cacheKey option
NoCacheKey(h) == hook[h].config.method = "GET" /\ hook[h].config.cacheKey = Null

\* C29: for a GET coordinator without an explicit cache key the request
\* signature is the cache key: a successful result is stored under the
\* signature, and a later run that finds that entry not expired is served
\* from it without a Transport call.
C29_SignatureIsCacheKey ==
  [][/\ \A r \in 1..Len(runs) :
          (IssuerSucceeds(r) /\ NoCacheKey(runs[r].hook)) =>
            /\ cache'[effectiveCacheKey(runs[r].hook)] # None
            /\ cache'[effectiveCacheKey(runs[r].hook)].data = runs'[r].value
     /\ \A h \in Hooks :
          (/\ FetchStarts(h) /\ NoCacheKey(h)
           /\ cache[effectiveCacheKey(h)] # None
           /\ ~CacheExpired(cache[effectiveCacheKey(h)], now)) =>
            /\ requests' = requests
            /\ hook'[h].data = cache[effectiveCacheKey(h)].data]_vars

(* ------------------------------- cancel -------------------------------- *)

\* C30: once cancel() has hit a run (its request in flight was aborted or
\* its waiting retry timer was cleared) the run makes no further Transport
\* call and no retry timer is pending or scheduled for it, also when the
\* cancelled attempt completes later.
C30_CancelledRunStops ==
  [][\A r \in 1..Len(runs) :
       runs[r].cancelled =>
         /\ runs'[r].transport = runs[r].transport
         /\ ~\E tm \in timers' : tm.run = r]_vars

(* -------------------------------- reset -------------------------------- *)

\* the state a coordinator has before its first fetch
PreFetch(h) ==
  /\ hook[h].data = Null /\ hook[h].error = Null
  /\ ~hook[h].isLoading /\ ~hook[h].isInitialized /\ ~hook[h].isValidating
  /\ hook[h].lastFetchTime = NoTime

\* a Transport call completes in this step
RequestCompletes ==
  \E q \in DOMAIN requests :
    requests[q].status = "pending" /\ requests'[q].status = "done"

\* C31: reset() puts the coordinator in its pre-fetch state with no retry
\* timer left for it, and the completion of a request issued before the
\* reset does not take the coordinator out of that state or schedule a
\* retry.
C31_ResetHolds ==
  [][\A h \in Hooks :
       /\ Reset(h) =>
            /\ PreFetch(h)'
            /\ ~\E tm \in timers' : runs[tm.run].hook = h
       /\ (hook[h].phase = "mounted" /\ PreFetch(h) /\ RequestCompletes) =>
            /\ PreFetch(h)'
            /\ ~\E tm \in timers' : runs[tm.run].hook = h]_vars

(* ------------------------------ onSettled ------------------------------ *)

\* the positions of the calls of onSettled among the callbacks of run r
SettledAt(r) ==
  {i \in 1..Len(runs[r].callbacks) : runs[r].callbacks[i] = "onSettled"}

\* C32: in each run, retries included, onSettled is called at most once,
\* and only directly after the run's terminal onSuccess or onError; an
\* attempt that only schedules a retry does not call it.
C32_SettledOnceAfterOutcome ==
  \A r \in DOMAIN runs :
    /\ Cardinality(SettledAt(r)) <= 1
    /\ \A i \in SettledAt(r) :
         /\ i > 1
         /\ runs[r].callbacks[i - 1] \in {"onSuccess", "onError"}
         /\ i = Len(runs[r].callbacks)

(* ---------------------------- waitForAuth ------------------------------ *)

\* coordinator h waits for the session (requireAuth and waitForAuth), has
\* issued nothing, and the service has published an authenticated state
DeferredAuthenticated(h) ==
  /\ hook[h].phase = "mounted"
  /\ hook[h].config.requireAuth /\ hook[h].config.waitForAuth
  /\ requests = <<>>
  /\ authState.isAuthenticated /\ ~authState.isLoading
  /\ published.state.isAuthenticated

\* C33: a mounted coordinator that waits for the session and has been
\* deferred issues its request once an authenticated state has been
\* published (unless the session ends first), with no call from outside.
C33_DeferredEventuallyIssues ==
  DeferredAuthenticated("h1") ~> (requests # <<>> \/ ~authState.isAuthenticated)

(* ------------------- requests that outlive the session ----------------- *)

\* the refresh request c, still in flight, returns in this step
RefreshReturns(c) == c \in calls /\ c.kind = "refresh" /\ c \notin calls'

\* C34: a refresh request that is still in flight when logout has completed
\* (the session is logged out, no token in memory or persisted) does not
\* reinstall a token when it returns: token and persisted token stay absent
\* and isAuthenticated stays false.
C34_NoTokenAfterLogout ==
  [][\A c \in calls :
       (/\ RefreshReturns(c)
        /\ ~authState.isAuthenticated
        /\ authState.token = None
        /\ localStorage.authToken = None) =>
         /\ authState'.token = None
         /\ localStorage'.authToken = None
         /\ ~authState'.isAuthenticated]_vars

(* --------------------------- forced logout ----------------------------- *)

\* the remote logout calls started by the countdown that are still awaited
ExpiryLogouts == {c \in calls : c.kind = "logout" /\ c.then = "none"}

\* C35: the logout forced by expiry is performed once: while its remote
\* call is awaited, no further logout call is started by a later tick.
C35_ForcedLogoutOnce == Cardinality(ExpiryLogouts) <= 1

(* -------------------------- overlapping syncs -------------------------- *)

\* the successful replays of action a, by any run
SuccessfulReplays(a) ==
  {n \in 1..Len(replayLog) : replayLog[n].action = a /\ replayLog[n].ok}

\* C36: each queued action is replayed successfully at most once, also when
\* runs of syncOfflineActions overlap.
C36_ReplayedAtMostOnce ==
  \A a \in 1..MaxActions : Cardinality(SuccessfulReplays(a)) <= 1

(* ---------------------- queueing during a sync ------------------------- *)

\* the replay that settles in this step
Settled == replayLog'[Len(replayLog')]

\* the actions in the queue that the run of the settling replay did not copy
QueuedSince(i) == SeqToSet(offlineActions) \ SeqToSet(syncs[i].actionsToSync)

\* C37: an action queued after a run of syncOfflineActions copied the queue
\* is neither replayed nor removed by that run; each replay of the run
\* leaves it in the queue in insertion order, and when the run ends it is in
\* the queue the run persists.
C37_QueuedDuringSyncKept ==
  [][Len(replayLog') > Len(replayLog) =>
       \A a \in QueuedSince(Settled.run) :
         /\ Settled.action # a
         /\ a \in SeqToSet(offlineActions')
         /\ Increasing(offlineActions')
         /\ syncs'[Settled.run].pc = "done" =>
              /\ localStorage'.offlineActions = Stored(offlineActions')
              /\ a \in SeqToSet(localStorage'.offlineActions.items)]_vars

\* a run has ended with an action in its final queue that was queued after
\* the run began, and has persisted that queue
C37_Witness ==
  \E i \in 1..Len(syncs) :
    /\ syncs[i].pc = "done"
    /\ syncs[i].ok # {}
    /\ SeqToSet(syncs[i].finalQueue) \ SeqToSet(syncs[i].startQueue) # {}
    /\ syncs[i].finalStored = Stored(syncs[i].finalQueue)
    /\ localStorage.offlineActions = Stored(offlineActions)

(* ----------------------- token and isAuthenticated --------------------- *)

\* no operation of the service is waiting for a request
Quiescent == calls = {} /\ storageEvents = 0

\* C38: whenever no operation is in progress, isAuthenticated holds exactly
\* when there is a token in memory, and the persisted token is the token in
\* memory (both absent or the same), also after a start from storage that
\* held an expired token.
C38_TokenConsistent ==
  Quiescent =>
    /\ authState.isAuthenticated <=> authState.token # None
    /\ localStorage.authToken = authState.token

(* --------------------------- refresh guard ----------------------------- *)

\* the current token cannot be refreshed
NoRefreshCredential ==
  authState.token = None \/ ~authState.token.refreshToken

\* a call of refreshToken has been rejected by its guard
GuardRejects ==
  /\ lastSettled' # lastSettled
  /\ lastSettled'.op = "refresh"
  /\ ~lastSettled'.ok /\ ~lastSettled'.viaRequest

\* C39: refreshToken() without a refresh credential rejects at once: no
\* request is made and the session state, the persisted entries and the
\* countdown are what they were; the session is not logged out. (When the
\* call comes from the countdown's own tick, the tick's ageing of the token
\* and of sessionTimeRemaining is the only change.)
C39_GuardRejectsOnly ==
  [][/\ \A origin \in {"manual", "hook"} :
          (RefreshToken(origin) /\ NoRefreshCredential) =>
            /\ GuardRejects
            /\ authState' = authState
            /\ localStorage' = localStorage
            /\ sessionTimer' = sessionTimer
            /\ calls' = calls /\ nextCall' = nextCall
     /\ GuardRejects =>
          /\ calls' = calls /\ nextCall' = nextCall
          /\ authState'.isAuthenticated = authState.isAuthenticated
          /\ authState'.user = authState.user
          /\ (authState'.token = None) = (authState.token = None)
          /\ (localStorage'.authToken = None) = (localStorage.authToken = None)
          /\ localStorage'.user = localStorage.user
          /\ sessionTimer' = sessionTimer]_vars

\* refreshToken has been rejected by its guard in an authenticated session
\* whose token has no refresh credential; the session is as it was
C39_Witness ==
  /\ lastSettled.op = "refresh" /\ ~lastSettled.ok /\ ~lastSettled.viaRequest
  /\ authState.isAuthenticated
  /\ authState.token # None /\ ~authState.token.refreshToken
  /\ localStorage.authToken = authState.token
  /\ sessionTimer /\ calls = {}

====
